---- MODULE Spec2Model ----
(***************************************************************************)
(* The game-coordination engine of the jeopardy server: class Game of      *)
(* jeopardy_game.py (player registry, current question, start, guesses,    *)
(* timeout watchers, notification pool) together with the answer matcher   *)
(* check_guess and the Question serialisation of jeopardy_model.py.        *)
(*                                                                         *)
(* Request handlers are threads that interleave between the statements of  *)
(* a handler; the RLock of Game is a variable; the ThreadPoolExecutor is a *)
(* FIFO queue of submitted tasks and a set of running tasks.               *)
(***************************************************************************)
EXTENDS Integers, Sequences, FiniteSets, TLC

\* Python's None.
None == "None"

\* ------------------------------------------------------------------------
\* Text.  A Python str is modelled as the tuple of its characters; Str gives
\* the characters of the texts the model uses.
\* ------------------------------------------------------------------------
Str(s) ==
    CASE s = "Paris" -> <<"P", "a", "r", "i", "s">>
      [] s = "paris" -> <<"p", "a", "r", "i", "s">>
      [] s = "Rome" -> <<"R", "o", "m", "e">>
      [] s = "rome!" -> <<"r", "o", "m", "e", "!">>
      [] s = "Lima" -> <<"L", "i", "m", "a">>
      [] s = "Bo" -> <<"B", "o">>
      [] s = "Bo Bo" -> <<"B", "o", " ", "B", "o">>
      [] s = "Abe Lee" -> <<"A", "b", "e", " ", "L", "e", "e">>
      [] s = "Lee Abe" -> <<"L", "e", "e", " ", "A", "b", "e">>
      [] s = "the" -> <<"t", "h", "e">>
      [] s = "" -> <<>>

\* str.lower() on one character.
Lower(c) ==
    CASE c = "P" -> "p"
      [] c = "R" -> "r"
      [] c = "L" -> "l"
      [] c = "A" -> "a"
      [] c = "B" -> "b"
      [] OTHER -> c

\* string.punctuation, as far as the texts of the model use it.
Punctuation == {"!", ".", ",", "(", ")", "'", "?"}

Whitespace == {" "}

RECURSIVE SelectChars(_, _)
\* The characters of s that are not in drop, in order.
SelectChars(s, drop) ==
    IF s = <<>> THEN <<>>
    ELSE IF Head(s) \in drop THEN SelectChars(Tail(s), drop)
    ELSE <<Head(s)>> \o SelectChars(Tail(s), drop)

LowerStr(s) == [i \in 1..Len(s) |-> Lower(s[i])]

\* EnglishStemmer.stem on the (lower-cased, punctuation-free) words of the
\* model: the Snowball stemmer drops the plural-looking final s of "paris"
\* and leaves the other words alone.
Stem(w) == IF w = <<"p", "a", "r", "i", "s">> THEN <<"p", "a", "r", "i">> ELSE w

\* stopwords.words('english'), as far as the texts of the model use it.
Stopwords == {<<"t", "h", "e">>, <<"a">>, <<"o", "f">>}

process_token(token) == Stem(SelectChars(LowerStr(token), Punctuation))

RECURSIVE Split(_, _)
\* str.split(): the maximal runs of non-whitespace characters.  cur is the
\* run read so far.
Split(s, cur) ==
    IF s = <<>> THEN (IF cur = <<>> THEN <<>> ELSE <<cur>>)
    ELSE IF Head(s) \in Whitespace
         THEN (IF cur = <<>> THEN <<>> ELSE <<cur>>) \o Split(Tail(s), <<>>)
         ELSE Split(Tail(s), Append(cur, Head(s)))

RECURSIVE Segments(_, _)
\* re.findall(r'\([^()]*\)|[^()]+', s): left to right, either a
\* parenthesised group without inner parentheses, or a maximal run of
\* characters that are no parentheses; a parenthesis that starts no group
\* is skipped.  cur is the run read so far.
Segments(s, cur) ==
    LET flush == IF cur = <<>> THEN <<>> ELSE <<cur>>
        close == IF \E k \in 2..Len(s) : s[k] \in {"(", ")"}
                 THEN CHOOSE k \in 2..Len(s) :
                          /\ s[k] \in {"(", ")"}
                          /\ \A j \in 2..(k - 1) : s[j] \notin {"(", ")"}
                 ELSE 0
    IN  IF s = <<>> THEN flush
        ELSE IF Head(s) = "(" /\ close > 0 /\ s[close] = ")"
             THEN flush \o <<SubSeq(s, 1, close)>>
                        \o Segments(SubSeq(s, close + 1, Len(s)), <<>>)
        ELSE IF Head(s) \in {"(", ")"}
             THEN flush \o Segments(Tail(s), <<>>)
        ELSE Segments(Tail(s), Append(cur, Head(s)))

RECURSIVE RunLen(_, _, _, _, _, _)
\* The length of the common run a[i..], b[j..] inside a[..ahi], b[..bhi].
RunLen(a, b, i, j, ahi, bhi) ==
    IF i > ahi \/ j > bhi THEN 0
    ELSE IF a[i] # b[j] THEN 0
    ELSE 1 + RunLen(a, b, i + 1, j + 1, ahi, bhi)

RECURSIVE Matched(_, _, _, _, _, _)
\* SequenceMatcher.get_matching_blocks, summed: the longest common block of
\* a[alo..ahi] and b[blo..bhi] (the earliest in a, then the earliest in b),
\* then the same to its left and to its right.
Matched(a, b, alo, ahi, blo, bhi) ==
    IF alo > ahi \/ blo > bhi THEN 0
    ELSE LET P == (alo..ahi) \X (blo..bhi)
             len(p) == RunLen(a, b, p[1], p[2], ahi, bhi)
             best == CHOOSE p \in P :
                        \A r \in P :
                            \/ len(p) > len(r)
                            \/ /\ len(p) = len(r)
                               /\ \/ p[1] < r[1]
                                  \/ p[1] = r[1] /\ p[2] <= r[2]
             k == len(best)
         IN  IF k = 0 THEN 0
             ELSE Matched(a, b, alo, best[1] - 1, blo, best[2] - 1) + k
                  + Matched(a, b, best[1] + k, ahi, best[2] + k, bhi)

\* MATCH_RATIO_THRESHOLD = 0.75 as the fraction RatioNum / RatioDen.
RatioNum == 3
RatioDen == 4

\* SequenceMatcher(None, a, b).ratio() >= MATCH_RATIO_THRESHOLD, where
\* ratio() is 2.0 * matched / (len(a) + len(b)), and 1.0 for two empty texts.
RatioMatches(a, b) ==
    LET total == Len(a) + Len(b)
    IN  IF total = 0 THEN TRUE
        ELSE 2 * Matched(a, b, 1, Len(a), 1, Len(b)) * RatioDen >= RatioNum * total

\* Lines 164-168: every non-stopword answer token is among the guess tokens.
TokenCoverage(guess, correct_answer) ==
    LET gs == Split(guess, <<>>)
        as == Split(correct_answer, <<>>)
        guess_tokens == [i \in 1..Len(gs) |-> process_token(gs[i])]
        processed == [i \in 1..Len(as) |-> process_token(as[i])]
        answer_tokens == SelectSeq(processed, LAMBDA tok : tok \notin Stopwords)
        matched == {guess_tokens[i] : i \in 1..Len(guess_tokens)}
                   \cap {answer_tokens[i] : i \in 1..Len(answer_tokens)}
    IN  Cardinality(matched) = Len(answer_tokens)

RECURSIVE check_guess_chars(_, _)
\* check_guess on texts given as tuples of characters.
check_guess_chars(guess, correct_answer) ==
    LET potential_answers == Segments(correct_answer, <<>>)
    IN  \/ /\ Len(potential_answers) = 2
           /\ \E i \in 1..2 :
                  check_guess_chars(guess, SelectChars(potential_answers[i], {"(", ")"}))
        \/ RatioMatches(guess, correct_answer)
        \/ TokenCoverage(guess, correct_answer)

check_guess(guess, correct_answer) == check_guess_chars(Str(guess), Str(correct_answer))

\* ------------------------------------------------------------------------
\* Bounds and inputs.
\* ------------------------------------------------------------------------
\* The number of requests the clients make in one behaviour.
MaxOps == 3

\* The request handler threads (one per inbound request).
Threads == {"t1", "t2"}

PlayerIds == {"p1", "p2"}

\* The register requests the clients send: the same id twice, with a
\* different address and nick, and a second id.
RegisterRequests ==
    { [player_id |-> "p1", address |-> "a1", nick |-> "Alice"],
      [player_id |-> "p1", address |-> "a2", nick |-> "Bob"],
      [player_id |-> "p2", address |-> "a2", nick |-> "Bob"] }

\* What the question source can answer: (text, answer, category, value).
QuestionSource ==
    { [text |-> "capital", answer |-> "Paris", category |-> "Geo", value |-> 200],
      [text |-> "capital", answer |-> "Rome", category |-> "Geo", value |-> 400] }

Answers == {"Paris", "Rome"}

\* The set_question requests: what the source answered and the optional
\* player the new question is not announced to.
SetRequests ==
    { [src |-> [text |-> "capital", answer |-> "Paris", category |-> "Geo", value |-> 200],
       player_id |-> None],
      [src |-> [text |-> "capital", answer |-> "Rome", category |-> "Geo", value |-> 400],
       player_id |-> "p1"] }

\* The guesses the players submit.
GuessRequests ==
    { [player_id |-> "p1", guess |-> "paris"],
      [player_id |-> "p2", guess |-> "paris"],
      [player_id |-> "p1", guess |-> "Rome"] }

\* Pool(8), line 34.
PoolSize == 8

\* ------------------------------------------------------------------------
\* Data (jeopardy_model.py).
\* ------------------------------------------------------------------------
\* current_question = None.  A Question has a question_id >= 1.
NoQuestion == [question_id |-> 0, text |-> "", answer |-> "", category |-> "", value |-> 0]

\* Question(question_id, text, answer, category, value), lines 143-149: the
\* id is a fresh uuid, modelled as the number of the fetch.
Question(id, src) ==
    [question_id |-> id, text |-> src.text, answer |-> src.answer,
     category |-> src.category, value |-> src.value]

\* Question.to_json: every field, the answer blanked.
QuestionToJsonLeaky(q) == q
QuestionToJson(q) == [q EXCEPT !.answer = ""]

\* PlayerInfo(player_id, client_address, nick): the stats start at 0.
PlayerInfo(player_id, client_address, nick) ==
    [player_id |-> player_id, client_address |-> client_address, nick |-> nick,
     score |-> 0, correct_answers |-> 0, total_answers |-> 0]

\* PlayerInfo.to_json (Model.to_json): every field.
PlayerToJson(p) == p

VARIABLES
    players,           \* Game.players: player id -> index into heap, 0 = absent
    heap,              \* the PlayerInfo objects ever created, by identity
    current_question,  \* Game.current_question, NoQuestion for None
    in_progress,       \* Game.in_progress
    lock,              \* Game.lock: the thread that holds it, or None
    queue,             \* Game.pool: the tasks submitted and not yet started
    running,           \* Game.pool: the tasks a worker is running
    events,            \* every Event handed to notify, in order
    th,                \* the request handler threads
    nextq,             \* the number of questions fetched
    nops,              \* the number of requests made
    hist               \* history of the game, see NoHistory

vars == <<players, heap, current_question, in_progress, lock, queue, running,
          events, th, nextq, nops, hist>>

\* History, read by the properties only: the ids of the questions that
\* stopped being current, in order; the ids whose watcher has ended; the ids
\* a guess was found correct for at line 100; the ids a watcher was
\* submitted for, in order; the number of times line 83 ran and the number
\* of times line 82 raised; the requests.post calls of line 72.
\* follow says whether the behaviour follows the notify_players tasks
\* through the pool (SpecNotify, SpecStall) or takes the entries of events
\* for them.
NoHistory ==
    [cleared |-> <<>>, finished |-> {}, matched |-> {}, watched |-> <<>>,
     starts |-> 0, failed |-> 0, posts |-> {}, follow |-> FALSE]

IdleThread ==
    [pc |-> "idle", op |-> "none", res |-> "none",
     player_id |-> None, guess |-> "", address |-> "", nick |-> "",
     question |-> NoQuestion, correct |-> FALSE, player |-> 0, tmp |-> 0,
     \* history of the call
     emitted |-> <<>>, watch |-> 0, pre |-> -1, post |-> -1, matched |-> 0,
     credit |-> 0, fetch |-> "none", snap_ip |-> FALSE,
     solo |-> TRUE, snap_heap |-> <<>>, snap_cq |-> NoQuestion, snap_ev |-> 0,
     snap_players |-> [p \in PlayerIds |-> 0], clears0 |-> 0, clears1 |-> 0]

Init ==
    /\ players = [p \in PlayerIds |-> 0]
    /\ heap = <<>>
    /\ current_question = NoQuestion
    /\ in_progress = FALSE
    /\ lock = None
    /\ queue = <<>>
    /\ running = {}
    /\ events = <<>>
    /\ th = [t \in Threads |-> IdleThread]
    /\ nextq = 0
    /\ nops = 0
    /\ hist = NoHistory

\* ------------------------------------------------------------------------
\* Helpers of the handlers.
\* ------------------------------------------------------------------------
\* Event(event_type, payload), with the exclude set notify is called with.
\* question, pre and post are history: the question the event is about and
\* the ids of the current question before and after the step that emits it.
Event(event_type, payload, exclude, question, pre, post) ==
    [event_type |-> event_type, payload |-> payload, exclude |-> exclude,
     question |-> question, pre |-> pre, post |-> post]

\* Line 97: the task pool.submit(self.question_timeout, question).
WatchTask(q) ==
    [kind |-> "watch", question |-> q, event |-> 0, pc |-> "queued",
     pos |-> 0, used |-> 0, left |-> 0]

\* Line 64: the task pool.submit(self.notify_players, event, exclude=exclude)
\* for the event events[i].  pos, used and left are the iterator of line 70.
NotifyTask(i) ==
    [kind |-> "notify", question |-> NoQuestion, event |-> i, pc |-> "queued",
     pos |-> 0, used |-> 0, left |-> 0]

\* `player_id in self.players`, lines 37 and 51.
IsRegisteredNever(player_id) == FALSE
IsRegistered(player_id) == players[player_id] # 0

\* `not self.in_progress`, line 78.
IsInProgressNever == FALSE
IsInProgress == in_progress

\* `question is None`, line 81.
FetchFailedNever(question) == FALSE
FetchFailed(question) == question = NoQuestion

\* self.current_question.answer, line 100, and .value, line 105: the
\* attribute of None is an AttributeError.
HasAttributesAlways(question) == TRUE
HasAttributes(question) == question # NoQuestion

\* player.score + self.current_question.value, line 105.
NewScoreUnit(score, question) == score + 1
NewScore(score, question) == score + question.value

\* Game.is_current_question, lines 118-119.
IsCurrentQuestionAlways(question_id) == TRUE
IsCurrentQuestion(question_id) ==
    current_question # NoQuestion /\ current_question.question_id = question_id

\* The condition of line 88.
MayReplaceNewer(question) ==
    \/ current_question = NoQuestion
    \/ question = NoQuestion
    \/ question.question_id > current_question.question_id
MayReplaceAlways(question) == TRUE
MayReplace(question) == current_question = NoQuestion \/ question = NoQuestion

\* Game.update_current_question, lines 88-97, under the lock: the new
\* current question, the events notified and the watchers submitted.
UpdateCurrentQuestion(question, player_id) ==
    IF MayReplace(question)
    THEN [cq |-> question,
          ev |-> IF question # NoQuestion
                 THEN <<Event("NEW_QUESTION", QuestionToJson(question),
                              IF player_id # None THEN {player_id} ELSE {},
                              question, current_question.question_id,
                              question.question_id)>>
                 ELSE <<>>,
          watch |-> IF question # NoQuestion THEN <<question>> ELSE <<>>]
    ELSE [cq |-> current_question, ev |-> <<>>, watch |-> <<>>]

\* get_random_question, lines 135-149: nothing (NoQuestion), or a Question
\* with a fresh id made from what the source answers.
GetRandomQuestion == {NoQuestion} \cup {Question(nextq + 1, src) : src \in QuestionSource}

\* The shared state after a step: the current question, the events handed
\* to notify (each one a notify_players task submitted to the pool, line 64)
\* and the question_timeout tasks submitted to the pool after them (line
\* 97).
Effects(cq, evs, watches, h) ==
    /\ current_question' = cq
    /\ events' = events \o evs
    /\ queue' = queue
                 \o (IF h.follow
                     THEN [i \in 1..Len(evs) |-> NotifyTask(Len(events) + i)]
                     ELSE <<>>)
                 \o [i \in 1..Len(watches) |-> WatchTask(watches[i])]
    /\ hist' = [h EXCEPT
                   !.cleared = IF current_question # cq /\ current_question # NoQuestion
                               THEN Append(@, current_question.question_id) ELSE @,
                   !.watched = @ \o [i \in 1..Len(watches) |-> watches[i].question_id]]

\* The thread records after a step of t that changes the shared state (the
\* calls of the other threads are no longer alone) or only t's own locals.
Changed(t, new) ==
    th' = [u \in Threads |-> IF u = t THEN new ELSE [th[u] EXCEPT !.solo = FALSE]]
Local(t, new) == th' = [th EXCEPT ![t] = new]

\* A client makes a request: a handler thread that is free takes it.  The
\* threads are interchangeable, so the request goes to t1 when t1 is free.
Free(t) == th[t].pc \in {"idle", "done"}
CanCall(t) == Free(t) /\ (t = "t2" => ~Free("t1")) /\ nops < MaxOps

Call(op) ==
    [IdleThread EXCEPT !.op = op, !.snap_heap = heap, !.snap_cq = current_question,
                       !.snap_ev = Len(events), !.snap_players = players,
                       !.snap_ip = in_progress, !.clears0 = Len(hist.cleared)]

Done(rec, res) == [rec EXCEPT !.pc = "done", !.res = res]

\* The indices of the events a step appends.
NewEvents(n) == [i \in 1..n |-> Len(events) + i]

\* ------------------------------------------------------------------------
\* Game.register_player, lines 36-48.
\* ------------------------------------------------------------------------
\* Line 37.
RegisterCheck(t, req) ==
    /\ CanCall(t)
    /\ LET c == [Call("register") EXCEPT !.player_id = req.player_id,
                                         !.address = req.address, !.nick = req.nick]
       IN  Local(t, IF IsRegistered(req.player_id)
                    THEN Done(c, "noop")
                    ELSE [c EXCEPT !.pc = "register_insert"])
    /\ nops' = nops + 1
    /\ UNCHANGED <<players, heap, current_question, in_progress, lock, queue,
                   running, events, nextq, hist>>

\* Lines 38-48: the record is stored under the id, whatever is there.
RegisterInsert(t) ==
    /\ th[t].pc = "register_insert"
    /\ LET player == PlayerInfo(th[t].player_id, th[t].address, th[t].nick)
           event == Event("NEW_PLAYER", PlayerToJson(player), {}, NoQuestion,
                          current_question.question_id, current_question.question_id)
       IN  /\ heap' = Append(heap, player)
           /\ players' = [players EXCEPT ![th[t].player_id] = Len(heap) + 1]
           /\ Effects(current_question, <<event>>, <<>>, hist)
           /\ Changed(t, Done([th[t] EXCEPT !.emitted = NewEvents(1),
                                            !.player = Len(heap) + 1], "ok"))
    /\ UNCHANGED <<in_progress, lock, running, nextq, nops>>

\* ------------------------------------------------------------------------
\* Game.remove_player, lines 50-58.
\* ------------------------------------------------------------------------
\* Line 51.
RemoveCheck(t, player_id) ==
    /\ CanCall(t)
    /\ LET c == [Call("remove") EXCEPT !.player_id = player_id]
       IN  Local(t, IF IsRegistered(player_id)
                    THEN [c EXCEPT !.pc = "remove_delete"]
                    ELSE Done(c, "noop"))
    /\ nops' = nops + 1
    /\ UNCHANGED <<players, heap, current_question, in_progress, lock, queue,
                   running, events, nextq, hist>>

\* Lines 52-58: self.players[player_id] raises KeyError when the id has
\* been removed since line 51.
RemoveDelete(t) ==
    /\ th[t].pc = "remove_delete"
    /\ IF players[th[t].player_id] = 0
       THEN /\ Local(t, Done(th[t], "KeyError"))
            /\ UNCHANGED <<players, current_question, events, queue, hist>>
       ELSE LET player == heap[players[th[t].player_id]]
                event == Event("PLAYER_LEFT", PlayerToJson(player), {}, NoQuestion,
                               current_question.question_id,
                               current_question.question_id)
            IN  /\ players' = [players EXCEPT ![th[t].player_id] = 0]
                /\ Effects(current_question, <<event>>, <<>>, hist)
                /\ Changed(t, Done([th[t] EXCEPT !.emitted = NewEvents(1)], "ok"))
    /\ UNCHANGED <<heap, in_progress, lock, running, nextq, nops>>

\* ------------------------------------------------------------------------
\* Game.start, lines 76-84.
\* ------------------------------------------------------------------------
\* The handler is about to take the lock.
StartCall(t) ==
    /\ CanCall(t)
    /\ Local(t, [Call("start") EXCEPT !.pc = "start_lock"])
    /\ nops' = nops + 1
    /\ UNCHANGED <<players, heap, current_question, in_progress, lock, queue,
                   running, events, nextq, hist>>

\* Lines 77-79: the lock is taken; a game in progress ends the call.  The
\* history of the call starts here, where the call has the lock.
StartBegin(t) ==
    /\ th[t].pc = "start_lock"
    /\ lock = None
    /\ IF IsInProgress
       THEN /\ Local(t, Done(Call("start"), "noop"))
            /\ UNCHANGED <<lock, current_question, events, queue, hist>>
       ELSE /\ lock' = t
            /\ Effects(current_question,
                       <<Event("NEW_GAME", <<>>, {}, NoQuestion,
                               current_question.question_id,
                               current_question.question_id)>>, <<>>, hist)
            /\ Changed(t, [Call("start") EXCEPT !.pc = "start_fetch",
                                                !.emitted = NewEvents(1)])
    /\ UNCHANGED <<players, heap, in_progress, running, nextq, nops>>

\* Lines 80-84, the lock held: the question is fetched; without one the call
\* raises and the with statement releases the lock.
StartFinish(t) ==
    /\ th[t].pc = "start_fetch"
    /\ lock = t
    /\ \E question \in GetRandomQuestion :
          IF FetchFailed(question)
          THEN /\ Local(t, Done([th[t] EXCEPT !.fetch = "nothing"], "RuntimeError"))
               /\ hist' = [hist EXCEPT !.failed = @ + 1]
               /\ UNCHANGED <<in_progress, current_question, events, queue, nextq>>
          ELSE LET r == UpdateCurrentQuestion(question, None)
               IN  /\ in_progress' = TRUE
                   /\ nextq' = IF question = NoQuestion THEN nextq ELSE nextq + 1
                   /\ Effects(r.cq, r.ev, r.watch, [hist EXCEPT !.starts = @ + 1])
                   /\ Changed(t, Done([th[t] EXCEPT
                                 !.fetch = IF question = NoQuestion THEN "nothing"
                                           ELSE "question",
                                 !.question = question,
                                 !.pre = current_question.question_id,
                                 !.post = r.cq.question_id,
                                 !.emitted = @ \o NewEvents(Len(r.ev)),
                                 !.watch = Len(r.watch)], "ok"))
    /\ lock' = None
    /\ UNCHANGED <<players, heap, running, nops>>

\* ------------------------------------------------------------------------
\* set_question: Game.update_current_question with a question, lines 86-97.
\* ------------------------------------------------------------------------
\* The handler has fetched a question and is about to take the lock.
SetQuestionCall(t, src, player_id) ==
    /\ CanCall(t)
    /\ Local(t, [Call("set") EXCEPT !.pc = "set_lock", !.player_id = player_id,
                                    !.question = Question(nextq + 1, src)])
    /\ nextq' = nextq + 1
    /\ nops' = nops + 1
    /\ UNCHANGED <<players, heap, current_question, in_progress, lock, queue,
                   running, events, hist>>

\* Lines 87-97.
SetQuestionBody(t) ==
    /\ th[t].pc = "set_lock"
    /\ lock = None
    /\ LET r == UpdateCurrentQuestion(th[t].question, th[t].player_id)
           rec == Done([th[t] EXCEPT !.pre = current_question.question_id,
                                     !.post = r.cq.question_id,
                                     !.emitted = NewEvents(Len(r.ev)),
                                     !.watch = Len(r.watch),
                                     !.clears1 = Len(hist.cleared)],
                       IF r.ev = <<>> THEN "dropped" ELSE "accepted")
       IN  /\ Effects(r.cq, r.ev, r.watch, hist)
           /\ IF r.cq = current_question THEN Local(t, rec) ELSE Changed(t, rec)
    /\ UNCHANGED <<players, heap, in_progress, lock, running, nextq, nops>>

\* ------------------------------------------------------------------------
\* submit_guess: Game.check_guess, lines 99-116.  No statement but the call
\* of update_current_question takes the lock, so the handlers interleave
\* between the reads and the writes of each statement.
\* ------------------------------------------------------------------------
\* Line 100: self.current_question.answer raises AttributeError on None.
GuessMatch(t, player_id, guess) ==
    /\ CanCall(t)
    /\ LET c == [Call("guess") EXCEPT !.player_id = player_id, !.guess = guess]
           correct == check_guess(guess, current_question.answer)
       IN  IF ~HasAttributes(current_question)
           THEN /\ Local(t, Done(c, "AttributeError"))
                /\ hist' = hist
           ELSE /\ Local(t, [c EXCEPT !.pc = "guess_player", !.correct = correct,
                                      !.matched = current_question.question_id])
                /\ hist' = [hist EXCEPT !.matched =
                               IF correct THEN @ \cup {current_question.question_id}
                               ELSE @]
    /\ nops' = nops + 1
    /\ UNCHANGED <<players, heap, current_question, in_progress, lock, queue,
                   running, events, nextq>>

\* Lines 101-102: get_player, then the read of player.total_answers, which
\* raises AttributeError when get_player returned None.
GuessPlayer(t) ==
    /\ th[t].pc = "guess_player"
    /\ LET player == players[th[t].player_id]
       IN  Local(t, IF player = 0
                    THEN Done(th[t], "AttributeError")
                    ELSE [th[t] EXCEPT !.pc = "guess_total", !.player = player,
                                       !.tmp = heap[player].total_answers])
    /\ UNCHANGED <<players, heap, current_question, in_progress, lock, queue,
                   running, events, nextq, nops, hist>>

\* Line 102, the store of player.total_answers += 1; line 103.
GuessTotal(t) ==
    /\ th[t].pc = "guess_total"
    /\ heap' = [heap EXCEPT ![th[t].player].total_answers = th[t].tmp + 1]
    /\ Changed(t, [th[t] EXCEPT !.pc = IF th[t].correct THEN "guess_correct_read"
                                       ELSE "guess_notify"])
    /\ UNCHANGED <<players, current_question, in_progress, lock, queue, running,
                   events, nextq, nops, hist>>

\* Line 104, the read of player.correct_answers.
GuessCorrectRead(t) ==
    /\ th[t].pc = "guess_correct_read"
    /\ Local(t, [th[t] EXCEPT !.pc = "guess_correct",
                              !.tmp = heap[th[t].player].correct_answers])
    /\ UNCHANGED <<players, heap, current_question, in_progress, lock, queue,
                   running, events, nextq, nops, hist>>

\* Line 104, the store.
GuessCorrect(t) ==
    /\ th[t].pc = "guess_correct"
    /\ heap' = [heap EXCEPT ![th[t].player].correct_answers = th[t].tmp + 1]
    /\ Changed(t, [th[t] EXCEPT !.pc = "guess_score_read"])
    /\ UNCHANGED <<players, current_question, in_progress, lock, queue, running,
                   events, nextq, nops, hist>>

\* Line 105, the read of player.score.
GuessScoreRead(t) ==
    /\ th[t].pc = "guess_score_read"
    /\ Local(t, [th[t] EXCEPT !.pc = "guess_value", !.tmp = heap[th[t].player].score])
    /\ UNCHANGED <<players, heap, current_question, in_progress, lock, queue,
                   running, events, nextq, nops, hist>>

\* Line 105, the read of self.current_question.value: the question that is
\* current now, and AttributeError when there is none.
GuessValue(t) ==
    /\ th[t].pc = "guess_value"
    /\ Local(t, IF ~HasAttributes(current_question)
                THEN Done(th[t], "AttributeError")
                ELSE [th[t] EXCEPT !.pc = "guess_score",
                                   !.tmp = NewScore(@, current_question),
                                   !.credit = current_question.question_id])
    /\ UNCHANGED <<players, heap, current_question, in_progress, lock, queue,
                   running, events, nextq, nops, hist>>

\* Line 105, the store of player.score.
GuessScore(t) ==
    /\ th[t].pc = "guess_score"
    /\ heap' = [heap EXCEPT ![th[t].player].score = th[t].tmp]
    /\ Changed(t, [th[t] EXCEPT !.pc = "guess_clear"])
    /\ UNCHANGED <<players, current_question, in_progress, lock, queue, running,
                   events, nextq, nops, hist>>

\* Line 106: update_current_question(None), under the lock.
GuessClear(t) ==
    /\ th[t].pc = "guess_clear"
    /\ lock = None
    /\ LET r == UpdateCurrentQuestion(NoQuestion, None)
           rec == [th[t] EXCEPT !.pc = "guess_notify",
                                !.pre = current_question.question_id,
                                !.post = r.cq.question_id,
                                !.emitted = NewEvents(Len(r.ev)),
                                !.watch = Len(r.watch)]
       IN  /\ Effects(r.cq, r.ev, r.watch, hist)
           /\ IF r.cq = current_question THEN Local(t, rec) ELSE Changed(t, rec)
    /\ UNCHANGED <<players, heap, in_progress, lock, running, nextq, nops>>

\* Lines 107-116: NEW_ANSWER with the guess, the player's record as it is
\* now and the flag; notify without exclude; return correct.
GuessNotify(t) ==
    /\ th[t].pc = "guess_notify"
    /\ LET event == Event("NEW_ANSWER",
                          [answer |-> th[t].guess,
                           player |-> PlayerToJson(heap[th[t].player]),
                           is_correct |-> th[t].correct],
                          {}, NoQuestion, current_question.question_id,
                          current_question.question_id)
       IN  /\ Effects(current_question, <<event>>, <<>>, hist)
           /\ Changed(t, Done([th[t] EXCEPT !.emitted = @ \o NewEvents(1)],
                              IF th[t].correct THEN "True" ELSE "False"))
    /\ UNCHANGED <<players, heap, in_progress, lock, running, nextq, nops>>

\* ------------------------------------------------------------------------
\* The pool: ThreadPoolExecutor(8).
\* ------------------------------------------------------------------------
\* len(self.players).
Size == Cardinality({p \in PlayerIds : players[p] # 0})

\* The entries of the dict self.players after one more event: a NEW_PLAYER
\* appends its key (line 43; a key that is present keeps its entry), a
\* PLAYER_LEFT leaves None where its key was (line 53).
Store(entries, e) ==
    IF e.event_type = "NEW_PLAYER"
    THEN IF \E k \in 1..Len(entries) : entries[k] = e.payload.player_id
         THEN entries
         ELSE Append(entries, e.payload.player_id)
    ELSE IF e.event_type = "PLAYER_LEFT"
    THEN [k \in 1..Len(entries) |->
             IF entries[k] = e.payload.player_id THEN None ELSE entries[k]]
    ELSE entries

RECURSIVE EntriesFrom(_, _, _)
EntriesFrom(entries, i, n) ==
    IF i > n THEN entries ELSE EntriesFrom(Store(entries, events[i]), i + 1, n)

\* The entries of the dict self.players after the first n events.  Every
\* insertion and deletion is a NEW_PLAYER or PLAYER_LEFT of events, and the
\* dict is not resized within the bounds of the model (fewer than 6
\* entries).
Entries(n) == EntriesFrom(<<>>, 1, n)

\* The first entry after pos that holds a key, 0 when there is none.
NextEntry(entries, pos) ==
    IF \E k \in (pos + 1)..Len(entries) : entries[k] # None
    THEN CHOOSE k \in (pos + 1)..Len(entries) :
            /\ entries[k] # None
            /\ \A j \in (pos + 1)..(k - 1) : entries[j] = None
    ELSE 0

\* A free worker takes the oldest task.  A question_timeout task starts its
\* loop (lines 122-124); a notify_players task makes the iterator of
\* self.players.items() (lines 67-70), which remembers the size of the dict.
\* Where the notify_players tasks are not followed they are the entries of
\* events: a worker runs each to its end and they hold no worker for good.
WorkerStart ==
    /\ queue # <<>>
    /\ Cardinality(running) < PoolSize
    /\ running' = running \cup
          {IF Head(queue).kind = "watch"
           THEN [Head(queue) EXCEPT !.pc = "poll"]
           ELSE [Head(queue) EXCEPT !.pc = "iter", !.used = Size, !.left = Size]}
    /\ queue' = Tail(queue)
    /\ UNCHANGED <<players, heap, current_question, in_progress, lock, events,
                   th, nextq, nops, hist>>

\* Game.question_timeout, lines 123-132: the loop ends when the question is
\* no longer current or when its 30 seconds have passed, which can be at any
\* moment; then, under the lock, a question that is still current times out.
QuestionTimeout(task) ==
    /\ task \in running
    /\ task.pc = "poll"
    /\ lock = None
    /\ running' = running \ {task}
    /\ LET h == [hist EXCEPT !.finished = @ \cup {task.question.question_id}]
       IN  IF IsCurrentQuestion(task.question.question_id)
           THEN /\ Effects(NoQuestion,
                           <<Event("QUESTION_TIMEOUT", [answer |-> task.question.answer],
                                   {}, task.question, current_question.question_id, 0)>>,
                           <<>>, h)
                /\ th' = [u \in Threads |-> [th[u] EXCEPT !.solo = FALSE]]
           ELSE /\ Effects(current_question, <<>>, <<>>, h)
                /\ th' = th
    /\ UNCHANGED <<players, heap, in_progress, lock, nextq, nops>>

\* A worker that runs a question_timeout task goes on.
WatcherFire == \E task \in running : QuestionTimeout(task)

\* One requests.post of line 72: the event, the player and the endpoint it
\* went to and how it ended; a task that has ended is logged with no player.
Post(event, player_id, address, outcome) ==
    [event |-> event, player_id |-> player_id, address |-> address, outcome |-> outcome]

\* What a requests.post call can do: answer with resp.ok, answer with an
\* error status, raise (no connection), or never return (no timeout is set).
PostOutcomes == {"ok", "not_ok", "raise"}

\* Game.notify_players, lines 70-74, one round of the loop.  The iterator
\* raises RuntimeError when the size of the dict is not what it was at line
\* 70, ends the loop after the last entry, and raises RuntimeError when it
\* finds an entry after it has yielded as many as the dict had.  A player in
\* exclude is passed over; to the others the event is posted, at the address
\* the record has now.  An exception ends the task (the pool keeps it in
\* the future nobody reads); a post that never returns keeps the worker.
NotifyPlayers(task, outcome) ==
    /\ task \in running
    /\ task.kind = "notify"
    /\ task.pc = "iter"
    /\ LET entries == Entries(Len(events))
           k == NextEntry(entries, task.pos)
           ends(how) ==
               /\ running' = running \ {task}
               /\ hist' = [hist EXCEPT !.posts = @ \cup {Post(task.event, None, "", how)}]
       IN  IF task.used # Size THEN ends("RuntimeError")
           ELSE IF k = 0 THEN ends("end")
           ELSE IF task.left = 0 THEN ends("RuntimeError")
           ELSE IF entries[k] \in events[task.event].exclude
           THEN /\ running' = (running \ {task})
                                 \cup {[task EXCEPT !.pos = k, !.left = @ - 1]}
                /\ hist' = hist
           ELSE /\ running' = (running \ {task}) \cup
                      (CASE outcome \in {"ok", "not_ok"} ->
                               {[task EXCEPT !.pos = k, !.left = @ - 1]}
                         [] outcome = "raise" -> {}
                         [] outcome = "hang" ->
                               {[task EXCEPT !.pos = k, !.left = @ - 1, !.pc = "blocked"]})
                /\ hist' = [hist EXCEPT !.posts =
                               @ \cup {Post(task.event, entries[k],
                                            heap[players[entries[k]]].client_address,
                                            outcome)}]
    /\ UNCHANGED <<players, heap, current_question, in_progress, lock, queue,
                   events, th, nextq, nops>>

\* A worker that runs a notify_players task goes on.
NotifyStep == \E task \in running, outcome \in PostOutcomes : NotifyPlayers(task, outcome)

\* The same with a client that takes the connection and never answers:
\* line 72 sets no timeout, so the call does not return.
NotifyHang == \E task \in running : NotifyPlayers(task, "hang")

\* ------------------------------------------------------------------------
Next ==
    \/ \E t \in Threads, req \in RegisterRequests : RegisterCheck(t, req)
    \/ \E t \in Threads : RegisterInsert(t)
    \/ \E t \in Threads, p \in PlayerIds : RemoveCheck(t, p)
    \/ \E t \in Threads : RemoveDelete(t)
    \/ \E t \in Threads : StartCall(t)
    \/ \E t \in Threads : StartBegin(t)
    \/ \E t \in Threads : StartFinish(t)
    \/ \E t \in Threads, req \in SetRequests : SetQuestionCall(t, req.src, req.player_id)
    \/ \E t \in Threads : SetQuestionBody(t)
    \/ \E t \in Threads, req \in GuessRequests : GuessMatch(t, req.player_id, req.guess)
    \/ \E t \in Threads : GuessPlayer(t)
    \/ \E t \in Threads : GuessTotal(t)
    \/ \E t \in Threads : GuessCorrectRead(t)
    \/ \E t \in Threads : GuessCorrect(t)
    \/ \E t \in Threads : GuessScoreRead(t)
    \/ \E t \in Threads : GuessValue(t)
    \/ \E t \in Threads : GuessScore(t)
    \/ \E t \in Threads : GuessClear(t)
    \/ \E t \in Threads : GuessNotify(t)
    \/ WorkerStart
    \/ WatcherFire

Spec == Init /\ [][Next]_vars

\* The game once two clients have registered, one after the other, and
\* nothing else has happened: what Spec reaches by RegisterCheck and
\* RegisterInsert for p1 and then for p2.
InitPlay ==
    /\ heap = <<PlayerInfo("p1", "a1", "Alice"), PlayerInfo("p2", "a2", "Bob")>>
    /\ players = [p \in PlayerIds |-> IF p = "p1" THEN 1 ELSE 2]
    /\ events = [i \in 1..2 |-> Event("NEW_PLAYER", PlayerToJson(heap[i]), {},
                                       NoQuestion, 0, 0)]
    /\ current_question = NoQuestion
    /\ in_progress = FALSE
    /\ lock = None
    /\ queue = <<>>
    /\ running = {}
    /\ th = [t \in Threads |-> IdleThread]
    /\ nextq = 0
    /\ nops = 0
    /\ hist = NoHistory

SpecPlay == InitPlay /\ [][Next]_vars

\* The game once the first client has registered (one request) and has been
\* told so; from here the notify_players tasks are followed through the
\* pool.
InitNotify ==
    /\ heap = <<PlayerInfo("p1", "a1", "Alice")>>
    /\ players = [p \in PlayerIds |-> IF p = "p1" THEN 1 ELSE 0]
    /\ events = <<Event("NEW_PLAYER", PlayerToJson(heap[1]), {}, NoQuestion, 0, 0)>>
    /\ current_question = NoQuestion
    /\ in_progress = FALSE
    /\ lock = None
    /\ queue = <<>>
    /\ running = {}
    /\ th = [t \in Threads |-> IdleThread]
    /\ nextq = 0
    /\ nops = 1
    /\ hist = [NoHistory EXCEPT !.follow = TRUE]

\* The clients register, leave and ask for questions; the pool delivers.
NextNotify ==
    \/ \E t \in Threads, req \in RegisterRequests : RegisterCheck(t, req)
    \/ \E t \in Threads : RegisterInsert(t)
    \/ \E t \in Threads, p \in PlayerIds : RemoveCheck(t, p)
    \/ \E t \in Threads : RemoveDelete(t)
    \/ \E t \in Threads, req \in SetRequests : SetQuestionCall(t, req.src, req.player_id)
    \/ \E t \in Threads : SetQuestionBody(t)
    \/ WorkerStart
    \/ WatcherFire
    \/ NotifyStep

SpecNotify == InitNotify /\ [][NextNotify]_vars

\* Answers and guesses that reach the token coverage of lines 164-168: a
\* token twice, two tokens in another order, a stopword alone.
MatchSource ==
    { [text |-> "band", answer |-> "Bo Bo", category |-> "Music", value |-> 200],
      [text |-> "name", answer |-> "Abe Lee", category |-> "Names", value |-> 400],
      [text |-> "article", answer |-> "the", category |-> "Words", value |-> 600] }

MatchGuessRequests ==
    { [player_id |-> "p1", guess |-> "Bo"],
      [player_id |-> "p2", guess |-> "Lee Abe"],
      [player_id |-> "p1", guess |-> "Rome"] }

\* The game with two registered players and a question of MatchSource
\* current, made current by set_question; its watcher is in the pool.
InitMatch ==
    /\ heap = <<PlayerInfo("p1", "a1", "Alice"), PlayerInfo("p2", "a2", "Bob")>>
    /\ players = [p \in PlayerIds |-> IF p = "p1" THEN 1 ELSE 2]
    /\ \E src \in MatchSource :
          /\ current_question = Question(1, src)
          /\ events = [i \in 1..3 |->
                          IF i < 3
                          THEN Event("NEW_PLAYER", PlayerToJson(heap[i]), {},
                                     NoQuestion, 0, 0)
                          ELSE Event("NEW_QUESTION", QuestionToJson(Question(1, src)),
                                     {}, Question(1, src), 0, 1)]
          /\ queue = <<WatchTask(Question(1, src))>>
    /\ in_progress = FALSE
    /\ lock = None
    /\ running = {}
    /\ th = [t \in Threads |-> IdleThread]
    /\ nextq = 1
    /\ nops = 0
    /\ hist = [NoHistory EXCEPT !.watched = <<1>>]

\* The players guess.
NextMatch ==
    \/ \E t \in Threads, req \in MatchGuessRequests :
          GuessMatch(t, req.player_id, req.guess)
    \/ \E t \in Threads : GuessPlayer(t)
    \/ \E t \in Threads : GuessTotal(t)
    \/ \E t \in Threads : GuessCorrectRead(t)
    \/ \E t \in Threads : GuessCorrect(t)
    \/ \E t \in Threads : GuessScoreRead(t)
    \/ \E t \in Threads : GuessValue(t)
    \/ \E t \in Threads : GuessScore(t)
    \/ \E t \in Threads : GuessClear(t)
    \/ \E t \in Threads : GuessNotify(t)

SpecMatch == InitMatch /\ [][NextMatch]_vars

\* The workers a client that never answers holds at the start of SpecStall:
\* all but one.
Stalled == PoolSize - 1

\* A game whose only player, p1, never answers a post.  p1 registered, and
\* a second client registered and left three times, one request after the
\* other: that is Stalled events, the notify_players task of each was
\* started at once and is waiting in its post to p1.
InitStall ==
    /\ heap = <<PlayerInfo("p1", "a1", "Alice")>>
                \o [i \in 1..((Stalled - 1) \div 2) |-> PlayerInfo("p2", "a2", "Bob")]
    /\ players = [p \in PlayerIds |-> IF p = "p1" THEN 1 ELSE 0]
    /\ events = [i \in 1..Stalled |->
                    Event(IF i % 2 = 0 \/ i = 1 THEN "NEW_PLAYER" ELSE "PLAYER_LEFT",
                          PlayerToJson(heap[(i + 2) \div 2]), {}, NoQuestion, 0, 0)]
    /\ current_question = NoQuestion
    /\ in_progress = FALSE
    /\ lock = None
    /\ queue = <<>>
    /\ running = {[NotifyTask(i) EXCEPT !.pc = "blocked", !.pos = 1,
                                        !.used = IF i % 2 = 0 THEN 2 ELSE 1,
                                        !.left = IF i % 2 = 0 THEN 1 ELSE 0] :
                      i \in 1..Stalled}
    /\ th = [t \in Threads |-> IdleThread]
    /\ nextq = 0
    /\ nops = 0
    /\ hist = [NoHistory EXCEPT
                  !.follow = TRUE,
                  !.posts = {Post(i, "p1", "a1", "hang") : i \in 1..Stalled}]

\* The clients ask for questions and guess; the pool delivers to p1.
NextStall ==
    \/ \E t \in Threads, req \in SetRequests : SetQuestionCall(t, req.src, req.player_id)
    \/ \E t \in Threads : SetQuestionBody(t)
    \/ WorkerStart
    \/ WatcherFire
    \/ NotifyHang

\* The pool runs the tasks it has a worker for, a watcher's 30 seconds pass,
\* and a handler that can take the lock goes on.
SpecStall ==
    /\ InitStall
    /\ [][NextStall]_vars
    /\ WF_vars(WorkerStart)
    /\ WF_vars(WatcherFire)
    /\ WF_vars(NotifyHang)
    /\ \A t \in Threads : WF_vars(SetQuestionBody(t))

\* ------------------------------------------------------------------------
\* Properties.
\* ------------------------------------------------------------------------
EventsOfType(type) == {i \in 1..Len(events) : events[i].event_type = type}

\* The events of one type that are about question id.
EventsAbout(type, id) == {i \in EventsOfType(type) : events[i].question.question_id = id}

\* How often id occurs in the sequence s.
Count(s, id) == Cardinality({i \in 1..Len(s) : s[i] = id})

Finished(t, op) == th[t].op = op /\ th[t].pc = "done"

\* The call of update_current_question a thread has made took the question:
\* it became current, one NEW_QUESTION about it, with the exclude set of the
\* call, was notified, and one watcher was submitted for its id.
Accepted(t) ==
    /\ th[t].post = th[t].question.question_id
    /\ th[t].watch = 1
    /\ Count(hist.watched, th[t].question.question_id) = 1
    /\ EventsAbout("NEW_QUESTION", th[t].question.question_id) # {}
    /\ \A i \in EventsAbout("NEW_QUESTION", th[t].question.question_id) :
          /\ i = th[t].emitted[Len(th[t].emitted)]
          /\ events[i].exclude = (IF th[t].player_id = None THEN {} ELSE {th[t].player_id})
          /\ events[i].pre = 0
          /\ events[i].post = th[t].question.question_id

\* The call left the current question as it was: no event, no watcher.
Dropped(t) ==
    /\ th[t].post = th[t].pre
    /\ th[t].watch = 0
    /\ Count(hist.watched, th[t].question.question_id) = 0
    /\ EventsAbout("NEW_QUESTION", th[t].question.question_id) = {}

\* Two set_question calls, both made while no question was current, and no
\* question has stopped being current from the first call to the end of the
\* second: the calls ran concurrently, with nothing else in between.
RacedWhileIdle(a, b) ==
    /\ a # b
    /\ Finished(a, "set") /\ Finished(b, "set")
    /\ th[a].snap_cq = NoQuestion /\ th[b].snap_cq = NoQuestion
    /\ th[a].clears0 = th[a].clears1 /\ th[a].clears1 = th[b].clears0
    /\ th[b].clears0 = th[b].clears1

\* C1: of two set_question calls with distinct questions that run
\* concurrently while the game is IDLE, exactly one becomes current, with
\* exactly one NEW_QUESTION and exactly one watcher; the other is dropped
\* with no event and no watcher.  In every state at most one question is
\* current: the questions that became current and have not stopped being
\* current are the current question alone.
C1_OneQuestionWins ==
    /\ \A a, b \in Threads :
          RacedWhileIdle(a, b) =>
             /\ th[a].question.question_id # th[b].question.question_id
             /\ \/ th[a].res = "accepted" /\ Accepted(a) /\ th[a].emitted # <<>>
                   /\ Len(th[a].emitted) = 1
                   /\ th[b].res = "dropped" /\ Dropped(b) /\ th[b].emitted = <<>>
                   /\ th[b].pre = th[a].question.question_id
                \/ th[b].res = "accepted" /\ Accepted(b) /\ Len(th[b].emitted) = 1
                   /\ th[a].res = "dropped" /\ Dropped(a) /\ th[a].emitted = <<>>
                   /\ th[a].pre = th[b].question.question_id
    /\ Cardinality(EventsOfType("NEW_QUESTION")) - Len(hist.cleared)
          = (IF current_question = NoQuestion THEN 0 ELSE 1)
    /\ Len(hist.watched) = Cardinality(EventsOfType("NEW_QUESTION"))

\* Two concurrent set_question calls made while IDLE have both ended.
C1_Witness == \E a, b \in Threads : RacedWhileIdle(a, b)

C7_NoPreemption ==
    /\ \A t \in Threads :
          Finished(t, "set") =>
             IF th[t].pre # 0
             THEN th[t].res = "dropped" /\ Dropped(t) /\ th[t].emitted = <<>>
             ELSE th[t].res = "accepted" /\ Accepted(t) /\ Len(th[t].emitted) = 1
    /\ \A t \in Threads :
          th[t].op = "guess" /\ th[t].pc = "guess_notify" /\ th[t].pre = 0 =>
             th[t].post = 0 /\ th[t].emitted = <<>> /\ th[t].watch = 0
    /\ \A t \in Threads :
          th[t].op = "guess" /\ th[t].pre >= 0 => th[t].watch = 0 /\ th[t].post = 0
    /\ Len(hist.watched) = Cardinality(EventsOfType("NEW_QUESTION"))
    /\ \A i \in EventsOfType("NEW_QUESTION") :
          /\ events[i].pre = 0
          /\ events[i].post = events[i].question.question_id
          /\ Count(hist.watched, events[i].question.question_id) = 1

\* One set_question call was dropped because a question was current, and
\* the other call made its question current, excluding a player.
C7_Witness ==
    \E a, b \in Threads :
       /\ Finished(a, "set") /\ th[a].pre # 0 /\ th[a].res = "dropped"
       /\ Finished(b, "set") /\ th[b].res = "accepted"
       /\ \E i \in EventsOfType("NEW_QUESTION") : events[i].exclude # {}

\* A submit_guess call that ran without interference: nothing but the call
\* has changed the game since it was made.
Alone(t) == th[t].solo

\* C4: submit_guess by a registered player p while a question q is current,
\* run without interference, adds 1 to p.total_answers; when the guess
\* matches q's answer it adds 1 to p.correct_answers and q.value to p.score,
\* clears the current question and returns true; otherwise it leaves them
\* and returns false.  Exactly one event is emitted, a NEW_ANSWER without
\* exclusion carrying the guess, p's updated record and the flag, and no
\* other player's record changes.
C4_GuessEffect ==
    \A t \in Threads :
       /\ Finished(t, "guess") /\ Alone(t)
       /\ th[t].snap_cq # NoQuestion
       /\ th[t].snap_players[th[t].player_id] # 0
       => LET q == th[t].snap_cq
              p == th[t].snap_players[th[t].player_id]
              old == th[t].snap_heap[p]
              new == heap[p]
              match == check_guess(th[t].guess, q.answer)
          IN  /\ players = th[t].snap_players
              /\ Len(heap) = Len(th[t].snap_heap)
              /\ \A j \in 1..Len(heap) : j # p => heap[j] = th[t].snap_heap[j]
              /\ new.total_answers = old.total_answers + 1
              /\ new.player_id = old.player_id /\ new.nick = old.nick
              /\ new.client_address = old.client_address
              /\ IF match
                 THEN /\ new.correct_answers = old.correct_answers + 1
                      /\ new.score = old.score + q.value
                      /\ current_question = NoQuestion
                      /\ th[t].res = "True"
                 ELSE /\ new.correct_answers = old.correct_answers
                      /\ new.score = old.score
                      /\ current_question = q
                      /\ th[t].res = "False"
              /\ Len(events) = th[t].snap_ev + 1
              /\ th[t].emitted = <<Len(events)>>
              /\ events[Len(events)].event_type = "NEW_ANSWER"
              /\ events[Len(events)].exclude = {}
              /\ events[Len(events)].payload =
                    [answer |-> th[t].guess, player |-> new, is_correct |-> match]

\* A matching guess by a registered player has ended without interference,
\* and the question was worth more than one point.
C4_Witness ==
    \E t \in Threads :
       /\ Finished(t, "guess") /\ Alone(t) /\ th[t].res = "True"
       /\ th[t].snap_cq # NoQuestion
       /\ heap[th[t].player].score = th[t].snap_cq.value
       /\ heap[th[t].player].total_answers = 1

\* C5: every NEW_QUESTION payload has a blank answer and is the same
\* whatever the question's answer is; of the events the game builds from a
\* question, only QUESTION_TIMEOUT carries its answer, and the step that
\* emits it leaves that question no longer current.  (The answer field of
\* NEW_ANSWER is the text the player sent.)
C5_AnswerRedacted ==
    /\ \A i \in EventsOfType("NEW_QUESTION") :
          /\ events[i].payload.answer = ""
          /\ events[i].question.answer \in Answers
          /\ \A a \in Answers :
                QuestionToJson([events[i].question EXCEPT !.answer = a]) = events[i].payload
    /\ \A i \in EventsOfType("QUESTION_TIMEOUT") :
          /\ events[i].payload = [answer |-> events[i].question.answer]
          /\ events[i].post # events[i].question.question_id
          /\ current_question.question_id # events[i].question.question_id
    /\ \A i \in 1..Len(events) :
          events[i].event_type \notin {"NEW_QUESTION", "QUESTION_TIMEOUT", "NEW_ANSWER"}
             => "answer" \notin DOMAIN events[i].payload

\* A question was announced and has timed out, its answer revealed.
C5_Witness ==
    \E i \in EventsOfType("NEW_QUESTION"), j \in EventsOfType("QUESTION_TIMEOUT") :
       /\ events[j].question = events[i].question
       /\ events[j].payload.answer = "Rome"

Announced == {events[i].question : i \in EventsOfType("NEW_QUESTION")}

\* C2: for every question q that became current and that no guess was found
\* correct for, once q's watcher has ended (its 30 seconds have passed, or
\* it saw that q is not current) q has stopped being current exactly once
\* and exactly one QUESTION_TIMEOUT, carrying q's answer, was emitted.
C2_TimeoutExactlyOnce ==
    \A q \in Announced :
       q.question_id \in hist.finished /\ q.question_id \notin hist.matched =>
          /\ Count(hist.cleared, q.question_id) = 1
          /\ Cardinality(EventsAbout("QUESTION_TIMEOUT", q.question_id)) = 1
          /\ \A i \in EventsAbout("QUESTION_TIMEOUT", q.question_id) :
                events[i].payload.answer = q.answer

\* The start call found no game in progress at line 78 and went on.
Started(t) == Finished(t, "start") /\ th[t].res = "ok"

\* A start call that finds a game in progress emits no NEW_GAME, fetches no
\* question and leaves current_question and in_progress as they are.
StartIsNoop(t) ==
    /\ th[t].res = "noop"
    /\ th[t].emitted = <<>>
    /\ th[t].fetch = "none"
    /\ th[t].pre = -1
    /\ in_progress
    /\ Alone(t) => current_question = th[t].snap_cq /\ Len(events) = th[t].snap_ev

\* The start calls, apart from what becomes of the fetched question.
StartFrame ==
    /\ \A t \in Threads :
          Finished(t, "start") =>
             IF th[t].snap_ip
             THEN StartIsNoop(t)
             ELSE /\ th[t].res \in {"ok", "RuntimeError"}
                  /\ Len(th[t].emitted) >= 1
                  /\ events[th[t].emitted[1]].event_type = "NEW_GAME"
                  /\ Started(t) => in_progress /\ th[t].fetch = "question"
    /\ hist.starts <= 1
    /\ in_progress <=> hist.starts = 1
    /\ Cardinality({t \in Threads : Started(t)}) <= 1

\* C8 as stated: a successful start sets in_progress, emits NEW_GAME and
\* makes the fetched question current; a start call made while in_progress
\* is a no-op; there is at most one game start.
C8_StartMakesFetchedCurrent ==
    /\ StartFrame
    /\ \A t \in Threads : Started(t) => Accepted(t) /\ Len(th[t].emitted) = 2

\* C8 as amended: the same, but the fetched question becomes current only
\* when no question is current at line 84; a question that is current then
\* (made current by set_question before the game started) stays current and
\* the fetched question is dropped, with no NEW_QUESTION and no watcher.
C8_StartOnce ==
    /\ StartFrame
    /\ \A t \in Threads :
          Started(t) =>
             IF th[t].pre = 0
             THEN Accepted(t) /\ Len(th[t].emitted) = 2
             ELSE Dropped(t) /\ Len(th[t].emitted) = 1 /\ th[t].pre = th[t].snap_cq.question_id

\* Two concurrent start calls have ended: one started the game and made its
\* question current, the other found the game in progress.
C8_Witness ==
    \E a, b \in Threads :
       /\ Started(a) /\ th[a].pre = 0 /\ current_question = th[a].question
       /\ Finished(b, "start") /\ th[b].res = "noop"

\* C9: a start call whose fetch yields nothing raises to its caller; it has
\* not set in_progress, has not called update_current_question (no
\* NEW_QUESTION, no watcher, the current question as it was) and has
\* released the lock, so that a later start call finds the lock free and no
\* game in progress.
C9_FailedStartAborts ==
    /\ \A t \in Threads :
          Finished(t, "start") /\ th[t].fetch = "nothing" =>
             /\ th[t].res = "RuntimeError"
             /\ th[t].question = NoQuestion
             /\ th[t].pre = -1 /\ th[t].watch = 0
             /\ Len(th[t].emitted) = 1
             /\ events[th[t].emitted[1]].event_type = "NEW_GAME"
             /\ lock # t
             /\ Alone(t) => /\ ~in_progress
                            /\ current_question = th[t].snap_cq
                            /\ lock = None
                            /\ Len(events) = th[t].snap_ev + 1
    /\ \A t \in Threads : Finished(t, "start") => lock # t
    /\ hist.starts = 0 => ~in_progress

\* A start call has failed and a later start call has started the game.
C9_Witness ==
    /\ hist.failed > 0
    /\ in_progress
    /\ \E t \in Threads : Started(t) /\ current_question = th[t].question

\* C10: a guess submitted while no question is current ends with an error
\* to its caller (the AttributeError of line 100) before anything is done:
\* no NEW_ANSWER, every record and the registry as they were, still no
\* current question.
C10_GuessWithoutQuestion ==
    \A t \in Threads :
       Finished(t, "guess") /\ th[t].snap_cq = NoQuestion =>
          /\ th[t].res = "AttributeError"
          /\ th[t].emitted = <<>>
          /\ th[t].player = 0 /\ th[t].pre = -1
          /\ Alone(t) => /\ heap = th[t].snap_heap
                         /\ players = th[t].snap_players
                         /\ current_question = NoQuestion
                         /\ Len(events) = th[t].snap_ev

\* A registered player's guess has failed for want of a question, and the
\* game has gone on: a question has become current since.
C10_Witness ==
    \E t \in Threads :
       /\ Finished(t, "guess") /\ th[t].snap_cq = NoQuestion
       /\ th[t].res = "AttributeError"
       /\ players[th[t].player_id] # 0
       /\ current_question # NoQuestion

\* C11: an operation that names an id which is not in the registry returns
\* absence and does not raise.  remove_player for an absent id ends as a
\* no-op with no event, and no remove_player call raises; a submit_guess
\* that has matched its guess (line 100) and whose player lookup (line 101)
\* finds nothing ends with the flag, not with an error.
C11_UnknownPlayerNoThrow ==
    /\ \A t \in Threads :
          Finished(t, "remove") =>
             /\ th[t].res # "KeyError"
             /\ th[t].snap_players[th[t].player_id] = 0 =>
                   th[t].res = "noop" /\ th[t].emitted = <<>>
    /\ \A t \in Threads :
          Finished(t, "guess") /\ th[t].matched # 0 /\ th[t].player = 0 =>
             th[t].res \in {"True", "False"}

\* The posts of event i, and whether its notify_players task is over.
PostsOf(i) == {post \in hist.posts : post.event = i /\ post.player_id # None}
TaskOver(i) ==
    \E post \in hist.posts :
       post.event = i /\ post.outcome \in {"end", "RuntimeError", "raise"}

\* The registry has had the same keys from the moment event i was emitted.
RegistrySince(i) == Entries(Len(events)) = Entries(i)

\* C12: delivery is best-effort per recipient.  Once the notify_players task
\* of an event is over, with the registry the same all the while, the event
\* has been posted to every registered player that is not excluded, however
\* the posts to the others ended (an error status or a transport error), and
\* to none of them twice.
C12_BestEffortDelivery ==
    \A i \in 1..Len(events) :
       TaskOver(i) /\ RegistrySince(i) =>
          /\ \A q \in PlayerIds :
                players[q] # 0 /\ q \notin events[i].exclude =>
                   \E post \in PostsOf(i) : post.player_id = q
          /\ \A a, b \in PostsOf(i) : a.player_id = b.player_id => a = b

\* C13: a client that never answers does not stall the game: every question
\* that becomes current stops being current (a question is replaced only by
\* None, line 88), by a correct guess or by its timeout.
C13_NoStall == (current_question # NoQuestion) ~> (current_question = NoQuestion)

\* Set containment: every normalized answer token that is no stopword is
\* among the normalized guess tokens.
TokenSetCovered(guess, correct_answer) ==
    LET gs == Split(guess, <<>>)
        as == Split(correct_answer, <<>>)
    IN  {process_token(as[i]) : i \in 1..Len(as)} \ Stopwords
           \subseteq {process_token(gs[i]) : i \in 1..Len(gs)}

\* The parenthetical step (lines 153-158) or the ratio step (lines 160-162)
\* matches.
EarlierStepMatches(guess, correct_answer) ==
    LET potential_answers == Segments(correct_answer, <<>>)
    IN  \/ /\ Len(potential_answers) = 2
           /\ \E i \in 1..2 :
                 check_guess_chars(guess, SelectChars(potential_answers[i], {"(", ")"}))
        \/ RatioMatches(guess, correct_answer)

\* C14: where the parenthetical and the ratio step do not match, the result
\* of check_guess at line 100 is true exactly when the answer's tokens are
\* covered as a set: a token the answer has twice is covered by a guess
\* that has it once, the order of the tokens does not matter, and an answer
\* of stopwords only is matched by any guess.
C14_TokenSetCoverage ==
    \A t \in Threads :
       th[t].op = "guess" /\ th[t].matched # 0 =>
          LET guess == Str(th[t].guess)
              answer == Str(th[t].snap_cq.answer)
          IN  ~EarlierStepMatches(guess, answer) =>
                 (th[t].correct <=> TokenSetCovered(guess, answer))

\* The submit_guess call of t has found its guess correct at line 100 and
\* has incremented the player's correct_answers (line 104).
Credited(t) ==
    /\ th[t].op = "guess" /\ th[t].correct /\ th[t].matched # 0
    /\ \/ th[t].pc \in {"guess_score_read", "guess_value", "guess_score",
                        "guess_clear", "guess_notify"}
       \/ th[t].pc = "done" /\ th[t].player # 0

\* C15: at most one submit_guess call is credited for a question: of two
\* calls whose guesses were matched against the same question only one has
\* incremented correct_answers and gone on to add the value and to emit
\* NEW_ANSWER with is_correct = true.
C15_OneCreditPerQuestion ==
    \A a, b \in Threads :
       a # b /\ Credited(a) /\ Credited(b) => th[a].matched # th[b].matched

\* C16: a correct guess acts on the question it was matched against at line
\* 100 only: the value it adds to the score (line 105) is that question's,
\* and the question it clears (line 106) is that question.
C16_GuessActsOnMatched ==
    \A t \in Threads :
       th[t].op = "guess" /\ th[t].matched # 0 =>
          /\ th[t].credit # 0 => th[t].credit = th[t].matched
          /\ th[t].pre > 0 => th[t].pre = th[t].matched

\* C17: registration is first-write-wins.  Every NEW_PLAYER is emitted with
\* the store of a record under its id (lines 43-48), so a record is never
\* stored over a record of the same id, and one NEW_PLAYER is emitted per
\* registered id: between two NEW_PLAYER events of one id the id has left.
C17_FirstWriteWins ==
    \A i, j \in EventsOfType("NEW_PLAYER") :
       i < j /\ events[i].payload.player_id = events[j].payload.player_id =>
          \E k \in EventsOfType("PLAYER_LEFT") :
             i < k /\ k < j /\ events[k].payload.player_id = events[i].payload.player_id

\* C18: the statistics of every player record are consistent in every
\* state: 0 <= correct_answers <= total_answers, and a submit_guess call
\* that has incremented correct_answers ends having added a question's
\* value to the score, so that the score is the sum of the values of the
\* questions correct_answers was incremented for.
C18_StatsConsistent ==
    /\ \A i \in 1..Len(heap) :
          /\ 0 <= heap[i].correct_answers
          /\ heap[i].correct_answers <= heap[i].total_answers
    /\ \A t \in Threads :
          Finished(t, "guess") /\ Credited(t) =>
             th[t].res = "True" /\ th[t].credit # 0
    /\ (\A t \in Threads : Free(t)) =>
          \A i \in 1..Len(heap) : heap[i].correct_answers = 0 <=> heap[i].score = 0

\* C19: NEW_GAME is emitted only for a game that starts.  But for a start
\* call that holds the lock between line 79 and line 83, there are as many
\* NEW_GAME events as times in_progress was set, which is at most one, and a
\* start call that has raised has emitted nothing.
C19_NewGameOnlyOnStart ==
    /\ hist.starts <= 1
    /\ (\A t \in Threads : th[t].pc # "start_fetch") =>
          Cardinality(EventsOfType("NEW_GAME")) = hist.starts
    /\ \A t \in Threads :
          Finished(t, "start") /\ th[t].res = "RuntimeError" => th[t].emitted = <<>>

\* Player q was registered when the n-th event was emitted, and has not left
\* since event i.
RegisteredAt(q, n) == \E k \in 1..Len(Entries(n)) : Entries(n)[k] = q
StayedSince(q, i) ==
    \A k \in EventsOfType("PLAYER_LEFT") : k > i => events[k].payload.player_id # q

\* C20: the recipients of an event are the players registered when it was
\* emitted, minus the exclude set.  An event is posted to such players only;
\* no notify_players task is aborted by a change of the registry; and once
\* the task of an event is over, no post having raised, the event has been
\* posted to every player that was registered when it was emitted, is not
\* excluded and has not left.
C20_RecipientsAtEmission ==
    /\ \A i \in 1..Len(events) :
          \A post \in PostsOf(i) :
             /\ RegisteredAt(post.player_id, i)
             /\ post.player_id \notin events[i].exclude
    /\ \A post \in hist.posts : post.outcome # "RuntimeError"
    /\ \A i \in 1..Len(events) :
          /\ \E post \in hist.posts : post.event = i /\ post.outcome = "end"
          /\ \A post \in PostsOf(i) : post.outcome # "raise"
          => \A q \in PlayerIds :
                RegisteredAt(q, i) /\ StayedSince(q, i) /\ q \notin events[i].exclude =>
                   \E post \in PostsOf(i) : post.player_id = q

====
